---- MODULE Spec2Model ----
(***************************************************************************)
(* Model of .manage_sparkle.py: a command line tool that adds the Sparkle  *)
(* package to, or removes it from, an Xcode project.pbxproj by regular     *)
(* expression substitution on the text of the file.                        *)
(*                                                                         *)
(* The text of the file is a sequence of lines.  A line is a record        *)
(*   ind  : the number of leading tab characters,                          *)
(*   body : the rest of the line up to (not including) its newline,        *)
(*   mg   : an annotation that is no part of the text: TRUE for the lines  *)
(*          of the managed dependency (Sparkle), the ones add_sparkle      *)
(*          writes.  No operation of the program reads it.                 *)
(* A last record with body = "" stands for tabs that follow the last       *)
(* newline of the text.  Every regular expression of the program starts    *)
(* and ends at fixed places of a line (after a run of tabs, at a newline), *)
(* so each substitution is computed line by line, exactly as re.sub        *)
(* computes it on the characters.                                          *)
(***************************************************************************)
EXTENDS Integers, Sequences, FiniteSets, TLC

VARIABLES
  content,    \* the text of project.pbxproj on disk
  orig,       \* the text of the file before the first run
  prev,       \* the text of the file before the last run
  last,       \* the last run: its arguments, what it did to the file, its exit code
  before,     \* the run before the last, as `last`
  runs        \* the number of runs so far

vars == <<content, orig, prev, last, before, runs>>

\* Number of runs of the tool in a behaviour of Spec.
MaxRuns == 4
\* Number of runs of the tool in a behaviour of SpecCLI.
MaxCliRuns == 2

----------------------------------------------------------------------------
\* Constants of the program.

SPARKLE_REPO == "https://github.com/sparkle-project/Sparkle"
SPARKLE_VERSION == "2.8.1"
PKG_REF_ID == "27SPARKLE00000000001"
PKG_PROD_ID == "27SPARKLE00000000002"
BUILD_FILE_ID == "27SPARKLE00000000003"

\* The identifiers of the model's texts that 27SPARKLE\d+ matches.
SparkleIds == {PKG_REF_ID, PKG_PROD_ID, BUILD_FILE_ID}

\* Identifiers of the anchor dependency, as the patterns of add_sparkle spell them.
LOTTIE_BUILD_FILE_ID == "275915892F132A9200D0E60D"
LOTTIE_PROD_ID == "27AE10B12F10B1FC00E00DBC"
LOTTIE_REF_ID == "27AE10B02F10B1FC00E00DBC"

Line(n, b) == [ind |-> n, body |-> b, mg |-> FALSE]
Managed(n, b) == [ind |-> n, body |-> b, mg |-> TRUE]

\* The text alone, without the annotation.
Text(f) == [i \in 1..Len(f) |-> [ind |-> f[i].ind, body |-> f[i].body]]

----------------------------------------------------------------------------
\* The bodies of the lines add_sparkle writes.

SparkleBuildFile ==
  BUILD_FILE_ID \o " /* Sparkle in Frameworks */ = {isa = PBXBuildFile; productRef = "
                \o PKG_PROD_ID \o " /* Sparkle */; };"
SparkleInFrameworks == BUILD_FILE_ID \o " /* Sparkle in Frameworks */,"
SparkleProductEntry == PKG_PROD_ID \o " /* Sparkle */,"
SparkleReferenceEntry == PKG_REF_ID \o " /* XCRemoteSwiftPackageReference \"Sparkle\" */,"
SparkleRefHeader == PKG_REF_ID \o " /* XCRemoteSwiftPackageReference \"Sparkle\" */ = {"
SparkleProdHeader == PKG_PROD_ID \o " /* Sparkle */ = {"
SparkleRepoLine == "repositoryURL = \"" \o SPARKLE_REPO \o "\";"
SparkleVersionLine == "version = " \o SPARKLE_VERSION \o ";"
SparklePackageLine ==
  "package = " \o PKG_REF_ID \o " /* XCRemoteSwiftPackageReference \"Sparkle\" */;"

sparkle_ref ==
  << Managed(2, SparkleRefHeader),
     Managed(3, "isa = XCRemoteSwiftPackageReference;"),
     Managed(3, SparkleRepoLine),
     Managed(3, "requirement = {"),
     Managed(4, "kind = exactVersion;"),
     Managed(4, SparkleVersionLine),
     Managed(3, "};"),
     Managed(2, "};") >>

sparkle_prod ==
  << Managed(2, SparkleProdHeader),
     Managed(3, "isa = XCSwiftPackageProductDependency;"),
     Managed(3, SparklePackageLine),
     Managed(3, "productName = Sparkle;"),
     Managed(2, "};") >>

\* The bodies of the lines of the anchor dependency the patterns look for.
LottieBuildFile ==
  LOTTIE_BUILD_FILE_ID \o " /* Lottie in Frameworks */ = {isa = PBXBuildFile; productRef = "
                       \o LOTTIE_PROD_ID \o " /* Lottie */; };"
LottieInFrameworks == LOTTIE_BUILD_FILE_ID \o " /* Lottie in Frameworks */,"
LottieProductEntry == LOTTIE_PROD_ID \o " /* Lottie */,"
LottieReferenceEntry == LOTTIE_REF_ID \o " /* XCRemoteSwiftPackageReference \"lottie-spm\" */,"
LottieRefHeader == LOTTIE_REF_ID \o " /* XCRemoteSwiftPackageReference \"lottie-spm\" */ = {"
LottieProdHeader == LOTTIE_PROD_ID \o " /* Lottie */ = {"
LottiePackageLine ==
  "package = " \o LOTTIE_REF_ID \o " /* XCRemoteSwiftPackageReference \"lottie-spm\" */;"

\* A build file of another dependency.
OtherBuildFile ==
  "27000000000000000000000A /* Other in Frameworks */ = {isa = PBXBuildFile; productRef = 27000000000000000000000B /* Other */; };"

EndBuildFile == "/* End PBXBuildFile section */"
EndReference == "/* End XCRemoteSwiftPackageReference section */"
EndProduct == "/* End XCSwiftPackageProductDependency section */"
ProductListOpen == "packageProductDependencies = ("
ReferenceListOpen == "packageReferences = ("

----------------------------------------------------------------------------
\* Regular expression substitution, line by line.

\* Tabs left after the last newline of the text.
Remainder(n) == IF n = 0 THEN <<>> ELSE <<Line(n, "")>>

\* re.sub(r'\t{k}BODY\n', '', f) for the bodies BODY of `bodies`.  The pattern
\* is not anchored at the start of a line: on a line of more than k tabs it
\* matches from the last k tabs on, and the tabs before them stay and join
\* the next line.  `carry` counts the tabs earlier matches have left.
RECURSIVE SubLines(_, _, _, _)
SubLines(f, k, bodies, carry) ==
  IF f = <<>> THEN Remainder(carry)
  ELSE LET h == Head(f) IN
       IF h.ind >= k /\ h.body \in bodies
       THEN SubLines(Tail(f), k, bodies, carry + (h.ind - k))
       ELSE <<[h EXCEPT !.ind = @ + carry]>> \o SubLines(Tail(f), k, bodies, 0)

\* Whether a body holds a '}'.  In every such body of the model the first
\* '}' is followed by ';' and the newline.
HasCloseBrace(b) ==
  b \in {"};", SparkleBuildFile, LottieBuildFile, OtherBuildFile}

\* The index of the first line of f holding a '}', 0 when there is none.
FirstClose(f) ==
  IF \E i \in 1..Len(f) : HasCloseBrace(f[i].body)
  THEN CHOOSE i \in 1..Len(f) :
         /\ HasCloseBrace(f[i].body)
         /\ \A j \in 1..(i-1) : ~HasCloseBrace(f[j].body)
  ELSE 0

\* re.sub(r'\t{k}HEADER[^}]+\};\n', '', f, flags=re.DOTALL) for the headers
\* HEADER of `headers`, each ending in '{'.  [^}]+ stops before the first '}'
\* that follows the header, which the pattern needs to be followed by ';'
\* and a newline: the match ends with the first line after the header that
\* holds a '}', whatever block that line closes.
RECURSIVE SubBlocks(_, _, _, _)
SubBlocks(f, k, headers, carry) ==
  IF f = <<>> THEN Remainder(carry)
  ELSE LET h == Head(f)
           t == Tail(f)
           j == FirstClose(t)
       IN IF h.ind >= k /\ h.body \in headers /\ j > 0
          THEN SubBlocks(SubSeq(t, j + 1, Len(t)), k, headers, carry + (h.ind - k))
          ELSE <<[h EXCEPT !.ind = @ + carry]>> \o SubBlocks(t, k, headers, 0)

\* One line of a pattern: the body, and the tabs before it, exactly `ind` of
\* them when the pattern fixes what precedes them (a newline), at least
\* `ind` when it does not.
Pat(n, exact, b) == [ind |-> n, exact |-> exact, body |-> b]

\* Whether the pattern pat (a sequence of Pat) matches f from line i on.
MatchesAt(f, i, pat) ==
  /\ i + Len(pat) - 1 <= Len(f)
  /\ \A p \in 1..Len(pat) :
       LET l == f[i + p - 1] IN
       /\ l.body = pat[p].body
       /\ IF pat[p].exact THEN l.ind = pat[p].ind ELSE l.ind >= pat[p].ind

\* re.search(pattern, f)
Search(f, pat) == \E i \in 1..Len(f) : MatchesAt(f, i, pat)

\* re.sub(pattern, r'\1' + new [+ r'\2'], f): `new` is written after the
\* first g lines of every match of pat, from line i on, matches taken left
\* to right without overlap.
RECURSIVE InsertAfter(_, _, _, _, _)
InsertAfter(f, i, pat, g, new) ==
  IF i > Len(f) THEN <<>>
  ELSE IF MatchesAt(f, i, pat)
       THEN SubSeq(f, i, i + g - 1) \o new \o SubSeq(f, i + g, i + Len(pat) - 1)
              \o InsertAfter(f, i + Len(pat), pat, g, new)
       ELSE <<f[i]>> \o InsertAfter(f, i + 1, pat, g, new)

\* re.sub(r'(MARKER)', new + r'\1', f): `new` is written in front of every
\* occurrence of the marker, after the tabs that precede the marker.
RECURSIVE InsertBefore(_, _, _)
InsertBefore(f, marker, new) ==
  IF f = <<>> THEN <<>>
  ELSE LET h == Head(f) IN
       IF h.body = marker
       THEN <<[new[1] EXCEPT !.ind = @ + h.ind]>> \o Tail(new)
              \o <<[h EXCEPT !.ind = 0]>> \o InsertBefore(Tail(f), marker, new)
       ELSE <<h>> \o InsertBefore(Tail(f), marker, new)

----------------------------------------------------------------------------
\* remove_sparkle

\* The six substitutions of remove_sparkle, in the order of the code.
RemoveReferenceEntry(c) ==
  SubLines(c, 4, {id \o " /* XCRemoteSwiftPackageReference \"Sparkle\" */," : id \in SparkleIds}, 0)
\* A slip: the pattern of the Frameworks entry pasted in place of the
\* pattern of the packageProductDependencies entry.
RemoveProductEntryPasted(c) ==
  SubLines(c, 4, {id \o " /* Sparkle in Frameworks */," : id \in SparkleIds}, 0)
RemoveProductEntry(c) ==
  SubLines(c, 4, {id \o " /* Sparkle */," : id \in SparkleIds}, 0)
RemoveInFrameworks(c) ==
  SubLines(c, 4, {id \o " /* Sparkle in Frameworks */," : id \in SparkleIds}, 0)
RemoveBuildFile(c) ==
  SubLines(c, 2, {a \o " /* Sparkle in Frameworks */ = {isa = PBXBuildFile; productRef = "
                    \o b \o " /* Sparkle */; };" : a \in SparkleIds, b \in SparkleIds}, 0)
RemoveReferenceBlock(c) ==
  SubBlocks(c, 2, {id \o " /* XCRemoteSwiftPackageReference \"Sparkle\" */ = {" : id \in SparkleIds}, 0)
RemoveProductBlock(c) ==
  SubBlocks(c, 2, {id \o " /* Sparkle */ = {" : id \in SparkleIds}, 0)

\* The text remove_sparkle writes for the text c it read.
RemovedText(c) ==
  RemoveProductBlock(RemoveReferenceBlock(RemoveBuildFile(
    RemoveInFrameworks(RemoveProductEntry(RemoveReferenceEntry(c))))))

----------------------------------------------------------------------------
\* add_sparkle

\* The number of occurrences of 'Sparkle' in a body.
CountInBody(b) ==
  CASE b = SparkleBuildFile -> 2
    [] b \in {SparkleInFrameworks, SparkleProductEntry, SparkleReferenceEntry,
              SparkleRefHeader, SparkleRepoLine, SparkleProdHeader,
              SparklePackageLine, "productName = Sparkle;"} -> 1
    [] OTHER -> 0

\* content.count('Sparkle')
RECURSIVE SparkleCount(_)
SparkleCount(c) ==
  IF c = <<>> THEN 0 ELSE CountInBody(Head(c).body) + SparkleCount(Tail(c))

\* f'{PKG_REF_ID} /* XCRemoteSwiftPackageReference "Sparkle" */ =' in content
HasReferenceDefinition(c) == \E i \in 1..Len(c) : c[i].body = SparkleRefHeader

\* The "already fully configured" test.
FullyConfigured(c) == SparkleCount(c) >= 9 /\ HasReferenceDefinition(c)

\* The first substitution of the cleanup: its pattern starts with two tabs,
\* where the entry add_sparkle writes starts with four.
CleanupReferenceEntry(c) ==
  SubLines(c, 2, {id \o " /* XCRemoteSwiftPackageReference \"Sparkle\" */," : id \in SparkleIds}, 0)

\* The text the cleanup of partial references writes.
CleanedText(c) ==
  RemoveProductBlock(RemoveReferenceBlock(RemoveBuildFile(
    RemoveInFrameworks(RemoveProductEntry(CleanupReferenceEntry(c))))))

\* The anchor patterns of the six insertions.
BuildFileAnchor == << Pat(2, FALSE, LottieBuildFile), Pat(0, TRUE, EndBuildFile) >>
FrameworksAnchor == << Pat(4, FALSE, LottieInFrameworks) >>
ProductEntryAnchor == << Pat(0, FALSE, ProductListOpen), Pat(4, TRUE, LottieProductEntry) >>
ReferenceEntryAnchor == << Pat(0, FALSE, ReferenceListOpen), Pat(4, TRUE, LottieReferenceEntry) >>
ReferenceBlockAnchor ==
  << Pat(2, FALSE, LottieRefHeader),
     Pat(3, TRUE, "isa = XCRemoteSwiftPackageReference;"),
     Pat(3, TRUE, "repositoryURL = \"https://github.com/airbnb/lottie-spm.git\";"),
     Pat(3, TRUE, "requirement = {"),
     Pat(4, TRUE, "kind = upToNextMajorVersion;"),
     Pat(4, TRUE, "minimumVersion = 4.5.2;"),   \* minimumVersion = [^;]+;
     Pat(3, TRUE, "};"),
     Pat(2, TRUE, "};") >>
ProductBlockAnchor ==
  << Pat(2, FALSE, LottieProdHeader),
     Pat(3, TRUE, "isa = XCSwiftPackageProductDependency;"),
     Pat(3, TRUE, LottiePackageLine),
     Pat(3, TRUE, "productName = Lottie;"),
     Pat(2, TRUE, "};") >>

\* The six insertions.  Each takes and gives the text so far and the number
\* of warnings printed so far.
\* A slip: a fallback in front of the End marker, as the two blocks have,
\* given to the build file as well.
AddBuildFileWithFallback(r) ==
  IF Search(r.c, BuildFileAnchor)
  THEN [c |-> InsertAfter(r.c, 1, BuildFileAnchor, 1, <<Managed(2, SparkleBuildFile)>>), w |-> r.w]
  ELSE [c |-> InsertBefore(r.c, EndBuildFile, <<Managed(2, SparkleBuildFile)>>), w |-> r.w + 1]
AddBuildFile(r) ==
  IF Search(r.c, BuildFileAnchor)
  THEN [c |-> InsertAfter(r.c, 1, BuildFileAnchor, 1, <<Managed(2, SparkleBuildFile)>>), w |-> r.w]
  ELSE [c |-> r.c, w |-> r.w + 1]
AddInFrameworks(r) ==
  IF Search(r.c, FrameworksAnchor)
  THEN [c |-> InsertAfter(r.c, 1, FrameworksAnchor, 1, <<Managed(4, SparkleInFrameworks)>>), w |-> r.w]
  ELSE [c |-> r.c, w |-> r.w + 1]
AddProductEntry(r) ==
  IF Search(r.c, ProductEntryAnchor)
  THEN [c |-> InsertAfter(r.c, 1, ProductEntryAnchor, 2, <<Managed(4, SparkleProductEntry)>>), w |-> r.w]
  ELSE [c |-> r.c, w |-> r.w + 1]
AddReferenceEntry(r) ==
  IF Search(r.c, ReferenceEntryAnchor)
  THEN [c |-> InsertAfter(r.c, 1, ReferenceEntryAnchor, 2, <<Managed(4, SparkleReferenceEntry)>>), w |-> r.w]
  ELSE [c |-> r.c, w |-> r.w + 1]
AddReferenceBlock(r) ==
  IF Search(r.c, ReferenceBlockAnchor)
  THEN [c |-> InsertAfter(r.c, 1, ReferenceBlockAnchor, 8, sparkle_ref), w |-> r.w]
  ELSE [c |-> InsertBefore(r.c, EndReference, sparkle_ref), w |-> r.w + 1]
AddProductBlock(r) ==
  IF Search(r.c, ProductBlockAnchor)
  THEN [c |-> InsertAfter(r.c, 1, ProductBlockAnchor, 5, sparkle_prod), w |-> r.w]
  ELSE [c |-> InsertBefore(r.c, EndProduct, sparkle_prod), w |-> r.w + 1]

\* The text add_sparkle writes last, and the warnings it prints, for the
\* text c its insertions start from.
Inserted(c) ==
  AddProductBlock(AddReferenceBlock(AddReferenceEntry(
    AddProductEntry(AddInFrameworks(AddBuildFile([c |-> c, w |-> 0]))))))

\* The operations on the file a run performs, in order, when none raises.
ReadOp == [kind |-> "read", text |-> <<>>]
WriteOp(t) == [kind |-> "write", text |-> t]

\* add_sparkle on a file of text c: its operations on the file, the warnings
\* its insertions print, the branch it takes and the value it returns.
add_sparkle(c) ==
  IF FullyConfigured(c)
  THEN [io |-> <<ReadOp>>, warnings |-> 0, branch |-> "configured", success |-> TRUE]
  ELSE IF SparkleCount(c) > 0
       THEN LET cleaned == CleanedText(c)
                r == Inserted(cleaned)
            IN [io |-> <<ReadOp, WriteOp(cleaned), ReadOp, WriteOp(r.c)>>,
                warnings |-> r.w, branch |-> "cleanup", success |-> TRUE]
       ELSE LET r == Inserted(c)
            IN [io |-> <<ReadOp, WriteOp(r.c)>>,
                warnings |-> r.w, branch |-> "fresh", success |-> TRUE]

\* remove_sparkle on a file of text c, as add_sparkle.
remove_sparkle(c) ==
  [io |-> <<ReadOp, WriteOp(RemovedText(c))>>,
   warnings |-> 0, branch |-> "remove", success |-> TRUE]

----------------------------------------------------------------------------
\* The command line.

Prog == ".manage_sparkle.py"
Path == "project.pbxproj"
AddArgv == <<Prog, "add", Path>>
RemoveArgv == <<Prog, "remove", Path>>
\* Argument vectors of a length other than three.
BadCountArgvs == { <<Prog>>, <<Prog, "add">>, <<Prog, "remove", Path, Path>> }
\* Argument vectors of length three whose action is unknown.
UnknownArgvs == { <<Prog, "update", Path>>, <<Prog, "Add", Path>> }

\* Which operation on the file raises: 0 for none, k for the k-th one the
\* run comes to (a run performs at most four).
IOPoints == 0..4

NoRun ==
  [argc |-> 0, action |-> "", raised |-> FALSE, reads |-> 0, writes |-> 0,
   warnings |-> 0, branch |-> "", exit |-> 0]

\* A slip: the two exit codes exchanged.
ExitCodeExchanged(success) == IF success THEN 1 ELSE 0
\* sys.exit(0 if success else 1)
ExitCode(success) == IF success THEN 0 ELSE 1

\* The run of function result f (of add_sparkle or remove_sparkle) on a file
\* of text c when its k-th operation on the file raises: the text left on
\* disk and the report of the run.
Execute(argv, c, f, k) ==
  LET raised == k \in 1..Len(f.io)
      done == IF raised THEN SubSeq(f.io, 1, k - 1) ELSE f.io
      written == SelectSeq(done, LAMBDA o : o.kind = "write")
      inserting == Len(done) >= Len(f.io) - 1
  IN [content |-> IF written = <<>> THEN c ELSE written[Len(written)].text,
      report |-> [argc |-> Len(argv), action |-> argv[2], raised |-> raised,
                  reads |-> Len(done) - Len(written), writes |-> Len(written),
                  warnings |-> IF inserting THEN f.warnings ELSE 0,
                  branch |-> f.branch,
                  exit |-> IF raised THEN 1 ELSE ExitCode(f.success)]]

\* A run that exits before it comes to the file.
Refused(argv, c, why) ==
  [content |-> c,
   report |-> [argc |-> Len(argv), action |-> IF Len(argv) >= 2 THEN argv[2] ELSE "",
               raised |-> FALSE, reads |-> 0, writes |-> 0, warnings |-> 0,
               branch |-> why, exit |-> 1]]

\* The __main__ block run with sys.argv = argv on a file of text c.
Run(argv, c, k) ==
  IF Len(argv) # 3 THEN Refused(argv, c, "usage")
  ELSE IF argv[2] = "add" THEN Execute(argv, c, add_sparkle(c), k)
  ELSE IF argv[2] = "remove" THEN Execute(argv, c, remove_sparkle(c), k)
  ELSE Refused(argv, c, "unknown")

Main(argv, k) ==
  LET r == Run(argv, content, k) IN
  /\ content' = r.content
  /\ prev' = content
  /\ last' = r.report
  /\ before' = last
  /\ runs' = runs + 1
  /\ UNCHANGED orig

----------------------------------------------------------------------------
\* The files the runs start from.

Locations == 1..6
Begin(s) == "/* Begin " \o s \o " section */"
End(s) == "/* End " \o s \o " section */"
Sections ==
  << "PBXBuildFile", "PBXFrameworksBuildPhase", "PBXNativeTarget", "PBXProject",
     "XCRemoteSwiftPackageReference", "XCSwiftPackageProductDependency" >>

lottie_ref ==
  << Line(2, LottieRefHeader),
     Line(3, "isa = XCRemoteSwiftPackageReference;"),
     Line(3, "repositoryURL = \"https://github.com/airbnb/lottie-spm.git\";"),
     Line(3, "requirement = {"),
     Line(4, "kind = upToNextMajorVersion;"),
     Line(4, "minimumVersion = 4.5.2;"),
     Line(3, "};"),
     Line(2, "};") >>
lottie_prod ==
  << Line(2, LottieProdHeader),
     Line(3, "isa = XCSwiftPackageProductDependency;"),
     Line(3, LottiePackageLine),
     Line(3, "productName = Lottie;"),
     Line(2, "};") >>

If(b, lines) == IF b THEN lines ELSE <<>>

\* A project file: the six sections the tool edits, with the entries of the
\* anchor dependency at the locations of `lot`, the entries of the managed
\* dependency (where add_sparkle puts them) at the locations of `sp`, and,
\* when `trail`, a build file of another dependency after the anchor's.
MkFile(lot, sp, trail) ==
     <<Line(0, Begin(Sections[1]))>>
  \o If(1 \in lot, <<Line(2, LottieBuildFile)>>)
  \o If(1 \in sp, <<Managed(2, SparkleBuildFile)>>)
  \o If(trail, <<Line(2, OtherBuildFile)>>)
  \o <<Line(0, End(Sections[1])), Line(0, Begin(Sections[2])), Line(3, "files = (")>>
  \o If(2 \in lot, <<Line(4, LottieInFrameworks)>>)
  \o If(2 \in sp, <<Managed(4, SparkleInFrameworks)>>)
  \o <<Line(3, ");"), Line(0, End(Sections[2])), Line(0, Begin(Sections[3])),
       Line(3, ProductListOpen)>>
  \o If(3 \in lot, <<Line(4, LottieProductEntry)>>)
  \o If(3 \in sp, <<Managed(4, SparkleProductEntry)>>)
  \o <<Line(3, ");"), Line(0, End(Sections[3])), Line(0, Begin(Sections[4])),
       Line(3, ReferenceListOpen)>>
  \o If(4 \in lot, <<Line(4, LottieReferenceEntry)>>)
  \o If(4 \in sp, <<Managed(4, SparkleReferenceEntry)>>)
  \o <<Line(3, ");"), Line(0, End(Sections[4])), Line(0, Begin(Sections[5]))>>
  \o If(5 \in lot, lottie_ref)
  \o If(5 \in sp, sparkle_ref)
  \o <<Line(0, End(Sections[5])), Line(0, Begin(Sections[6]))>>
  \o If(6 \in lot, lottie_prod)
  \o If(6 \in sp, sparkle_prod)
  \o <<Line(0, End(Sections[6]))>>

\* The file with the anchor dependency and without the managed one.
Pristine == MkFile(Locations, {}, FALSE)

\* Files without the managed dependency, with any part of the anchor
\* dependency; and files with all of the anchor dependency and any part of
\* the managed one (an interrupted earlier run).
Files ==
  { MkFile(lot, {}, trail) : lot \in SUBSET Locations, trail \in BOOLEAN }
    \cup { MkFile(Locations, sp, FALSE) : sp \in SUBSET Locations }

CliFiles ==
  { Pristine, MkFile({}, {}, FALSE), MkFile(Locations, {1, 2}, FALSE),
    MkFile(Locations, Locations, FALSE) }

InitOn(files) ==
  /\ content \in files
  /\ orig = content
  /\ prev = content
  /\ last = NoRun
  /\ before = NoRun
  /\ runs = 0

Init == InitOn(Files)
InitCLI == InitOn(CliFiles)

\* Runs in which no operation on the file raises.
Add == runs < MaxRuns /\ Main(AddArgv, 0)
Remove == runs < MaxRuns /\ Main(RemoveArgv, 0)
Next == Add \/ Remove
Spec == Init /\ [][Next]_vars

\* Every run of the command line.
CliAdd == runs < MaxCliRuns /\ \E k \in IOPoints : Main(AddArgv, k)
CliRemove == runs < MaxCliRuns /\ \E k \in IOPoints : Main(RemoveArgv, k)
CliBadCount == runs < MaxCliRuns /\ \E argv \in BadCountArgvs : Main(argv, 0)
CliUnknown == runs < MaxCliRuns /\ \E argv \in UnknownArgvs : Main(argv, 0)
NextCLI == CliAdd \/ CliRemove \/ CliBadCount \/ CliUnknown
SpecCLI == InitCLI /\ [][NextCLI]_vars

----------------------------------------------------------------------------
\* Vocabulary of the properties.

\* The last run was `action`, it came to the file and it exited with 0.
Succeeded(run, action) == run.argc = 3 /\ run.action = action /\ run.exit = 0

\* No line of f names the managed dependency.  Every body of the model that
\* holds a 27SPARKLE identifier holds the name Sparkle as well.
SparkleFree(f) == \A i \in 1..Len(f) : CountInBody(f[i].body) = 0

\* The lines of section s of f: those between its Begin and its End marker.
Section(f, s) ==
  LET b == CHOOSE i \in 1..Len(f) : f[i].body = Begin(s)
      e == CHOOSE i \in 1..Len(f) : f[i].body = End(s)
  IN Text(SubSeq(f, b + 1, e - 1))

\* The number of places of text t where the lines `lines` stand.
Occurrences(t, lines) ==
  Cardinality({ i \in 1..(Len(t) - Len(lines) + 1) :
                  SubSeq(t, i, i + Len(lines) - 1) = Text(lines) })

\* The number of lines of text t with the body b.
Mentions(t, b) == Cardinality({ i \in 1..Len(t) : t[i].body = b })

\* None of the six anchor patterns of add_sparkle matches f.
NoAnchor(f) ==
  \A a \in {BuildFileAnchor, FrameworksAnchor, ProductEntryAnchor,
            ReferenceEntryAnchor, ReferenceBlockAnchor, ProductBlockAnchor} :
    ~Search(f, a)

\* The braces of f match: reading the lines in order, no '};' closes a block
\* that no line has opened, and no block is left open at the end.
Opens(b) ==
  IF b \in {SparkleRefHeader, SparkleProdHeader, LottieRefHeader, LottieProdHeader,
            "requirement = {"} THEN 1 ELSE 0
Closes(b) == IF b = "};" THEN 1 ELSE 0
RECURSIVE Depth(_, _)
Depth(f, n) == IF n = 0 THEN 0 ELSE Depth(f, n - 1) + Opens(f[n].body) - Closes(f[n].body)
Balanced(f) == Depth(f, Len(f)) = 0 /\ \A n \in 1..Len(f) : Depth(f, n) >= 0

\* Whether the lines of a stand in b, in the order of a.
RECURSIVE IsSubsequence(_, _)
IsSubsequence(a, b) ==
  IF a = <<>> THEN TRUE
  ELSE IF b = <<>> THEN FALSE
  ELSE IF Head(a) = Head(b) THEN IsSubsequence(Tail(a), Tail(b))
  ELSE IsSubsequence(a, Tail(b))

\* The lines of f that are no lines of the managed dependency.
Unmanaged(f) == Text(SelectSeq(f, LAMBDA l : ~l.mg))

\* A file with all of the anchor dependency and some, not all, of the six
\* entries of the managed one.
Partial(f) ==
  \E sp \in (SUBSET Locations) \ {{}, Locations} : f = MkFile(Locations, sp, FALSE)

----------------------------------------------------------------------------
\* The claims.

\* C1: add then remove on the pristine file (the six anchors, no managed
\* text) leaves the file as it was: remove deletes every line add wrote.
C1_RoundTrip ==
  (runs = 2 /\ Text(orig) = Text(Pristine)
     /\ Succeeded(before, "add") /\ Succeeded(last, "remove"))
  => Text(content) = Text(orig)

\* C2: an add right after a successful add takes the "already fully
\* configured" branch, writes nothing and leaves the file as the first add
\* left it.
C2_AddIdempotent ==
  (runs >= 2 /\ Succeeded(before, "add") /\ Succeeded(last, "add"))
  => /\ Text(content) = Text(prev)
     /\ last.branch = "configured"
     /\ last.writes = 0

\* C3: add on a file with some, not all, of the six managed entries finds
\* the partial state, cleans it up and leaves the file add leaves on the
\* pristine file.
C3_PartialRepair ==
  (runs = 1 /\ Partial(orig) /\ Succeeded(last, "add"))
  => /\ last.branch = "cleanup"
     /\ Text(content) = Text(Inserted(Pristine).c)

\* C4: after a successful add each of the six locations holds exactly one
\* entry of the managed dependency, written with the reserved identifiers.
C4_PostAdd ==
  Succeeded(last, "add")
  => /\ Mentions(Section(content, Sections[1]), SparkleBuildFile) = 1
     /\ Mentions(Section(content, Sections[2]), SparkleInFrameworks) = 1
     /\ Mentions(Section(content, Sections[3]), SparkleProductEntry) = 1
     /\ Mentions(Section(content, Sections[4]), SparkleReferenceEntry) = 1
     /\ Occurrences(Section(content, Sections[5]), sparkle_ref) = 1
     /\ Mentions(Section(content, Sections[5]), SparkleRefHeader) = 1
     /\ Occurrences(Section(content, Sections[6]), sparkle_prod) = 1
     /\ Mentions(Section(content, Sections[6]), SparkleProdHeader) = 1

\* C5: after a successful remove no line of the file names the managed
\* dependency, whether add wrote its entries after the anchors or in front
\* of the End markers.
C5_PostRemove == Succeeded(last, "remove") => SparkleFree(content)

\* C5 witness: remove has run on a file whose list entries add wrote after
\* the anchors and whose two blocks add wrote in front of the End markers.
C5_Witness ==
  /\ Text(orig) = Text(MkFile({1, 2, 3, 4}, {}, FALSE))
  /\ runs = 2 /\ Succeeded(before, "add") /\ before.warnings = 2
  /\ Succeeded(last, "remove")
  /\ ~SparkleFree(prev) /\ SparkleFree(content)

\* C6: the braces of the file match after any sequence of add and remove
\* runs, as they do in every file the runs start from.
C6_SyntaxPreserved == Balanced(content)

\* C7: every line that is no line of the managed dependency stands in the
\* file add or remove wrote, tabs included, in the same order.
C7_Isolation ==
  (Succeeded(last, "add") \/ Succeeded(last, "remove"))
  => IsSubsequence(Unmanaged(prev), Text(content))

\* C8, as claimed: add on a file without the anchor dependency prints six
\* warnings, exits with 0 and leaves all six sections as they were.
C8_MissingAnchorClaimed ==
  (last.argc = 3 /\ last.action = "add" /\ ~last.raised /\ NoAnchor(prev))
  => /\ last.exit = 0
     /\ last.warnings = 6
     /\ \A n \in 1..6 : Section(content, Sections[n]) = Section(prev, Sections[n])

\* C8, amended: add on a file with neither the anchor dependency nor managed
\* text prints six warnings, exits with 0, leaves the four sections without
\* a fallback as they were and writes one block in front of the End marker
\* of each of the two other sections.
C8_MissingAnchor ==
  (last.argc = 3 /\ last.action = "add" /\ ~last.raised
     /\ NoAnchor(prev) /\ SparkleFree(prev))
  => /\ last.exit = 0
     /\ last.warnings = 6
     /\ \A n \in 1..4 : Section(content, Sections[n]) = Section(prev, Sections[n])
     /\ Section(content, Sections[5]) = Section(prev, Sections[5]) \o Text(sparkle_ref)
     /\ Section(content, Sections[6]) = Section(prev, Sections[6]) \o Text(sparkle_prod)

\* C8 witness: add has run on a file with no anchor and no managed text.
C8_Witness ==
  /\ Succeeded(last, "add") /\ last.warnings = 6
  /\ NoAnchor(prev) /\ SparkleFree(prev)
  /\ Occurrences(Section(content, Sections[5]), sparkle_ref) = 1

\* C9: the exit code is 1 when the argument count is not three, when the
\* action is neither add nor remove, or when an operation on the file
\* raises, and 0 otherwise; a run refused for its arguments neither reads
\* nor writes the file.
C9_CliOutcome ==
  runs >= 1 =>
    LET refused == last.argc # 3 \/ last.action \notin {"add", "remove"} IN
    /\ last.exit = (IF refused \/ last.raised THEN 1 ELSE 0)
    /\ refused => (last.reads = 0 /\ last.writes = 0 /\ content = prev)

\* C9 witness: a run refused for an unknown action, then an add whose last
\* write raised after its cleanup had been written.
C9_Witness ==
  /\ runs = 2
  /\ before.argc = 3 /\ before.action = "update" /\ before.exit = 1
  /\ last.action = "add" /\ last.raised /\ last.writes = 1 /\ last.exit = 1
  /\ content # prev

\* C10: in a file add has written, the build file, the product and the
\* package reference of the managed dependency are defined wherever they
\* are referred to.
C10_ReferentialIntegrity ==
  LET t == Text(content) IN
  (Succeeded(last, "add") /\ last.writes >= 1)
  => /\ Mentions(t, SparkleInFrameworks) > 0 => Mentions(t, SparkleBuildFile) > 0
     /\ (Mentions(t, SparkleProductEntry) > 0 \/ Mentions(t, SparkleBuildFile) > 0)
          => Mentions(t, SparkleProdHeader) > 0
     /\ (Mentions(t, SparkleReferenceEntry) > 0 \/ Mentions(t, SparklePackageLine) > 0)
          => Mentions(t, SparkleRefHeader) > 0

====
